---- MODULE Spec2Model ----
(***************************************************************************)
(* ClimateBuddy backend: the request handlers of routes/chatbot.py,        *)
(* routes/weather.py and routes/dashboard.py as a state machine.           *)
(*                                                                         *)
(* A worker takes one request at a time (pc = "idle"), runs the whole      *)
(* handler as one step (pc = "done", the response and the outbound calls   *)
(* the handler made are recorded), and the response is sent (Respond).     *)
(* The remote sides - the weather provider and the language-model          *)
(* backend - are the environment: every outbound call draws its reply      *)
(* from the set of replies the remote side can give.                       *)
(*                                                                         *)
(* Strings the code inspects (lower(), strip(), `in`) are sequences of     *)
(* one-character strings; strings the code only passes along are TLA+      *)
(* strings.                                                                *)
(***************************************************************************)
EXTENDS Integers, Sequences, FiniteSets, TLC

VARIABLES
    client,     \* routes/chatbot.py module-level handle: "None" or "OpenAI"
    climate_topics,     \* routes/chatbot.py module-level list CLIMATE_TOPICS
    available_subjects, \* routes/chatbot.py module-level dict AVAILABLE_SUBJECTS
    pc,         \* "idle": waiting for a request; "done": a handler has run;
                \* "waiting", "answered": inside requests.get (see below)
    endpoint,   \* the handler that produced the response
    request,    \* the inputs of that request
    status,     \* HTTP status of the response
    body,       \* the response body (a record)
    calls       \* outbound calls issued by the handler, in order

vars == <<client, climate_topics, available_subjects,
          pc, endpoint, request, status, body, calls>>

\* the module-level state of the process: no handler assigns to it
module_state == <<client, climate_topics, available_subjects>>

----------------------------------------------------------------------------
(* Bounds of the model *)

MaxWords == 2          \* a chat message is made of at most MaxWords fragments
MaxForecast == 9       \* entries of the longest forecast list of the provider
MaxDays == 1           \* `days` ranges over -MaxDays..MaxDays
RandStride == 100      \* spacing of the sampled values of random.randint
MaxLimit == 11         \* `limit` ranges over -2..MaxLimit
MaxAqi == 320          \* aqi values classified range over -5..MaxAqi

----------------------------------------------------------------------------
(* Python string and list primitives *)

Min(a, b) == IF a < b THEN a ELSE b
Max(a, b) == IF a > b THEN a ELSE b

UpperLetters ==
    <<"A","B","C","D","E","F","G","H","I","J","K","L","M",
      "N","O","P","Q","R","S","T","U","V","W","X","Y","Z">>
LowerLetters ==
    <<"a","b","c","d","e","f","g","h","i","j","k","l","m",
      "n","o","p","q","r","s","t","u","v","w","x","y","z">>

\* str.lower() on one character
lower_char(c) ==
    IF \E i \in 1..Len(UpperLetters) : UpperLetters[i] = c
    THEN LowerLetters[CHOOSE i \in 1..Len(UpperLetters) : UpperLetters[i] = c]
    ELSE c

\* str.lower()
lower(s) == [i \in 1..Len(s) |-> lower_char(s[i])]

\* Python's `sub in s` on strings
contains(sub, s) ==
    \E i \in 0..(Len(s) - Len(sub)) : SubSeq(s, i + 1, i + Len(sub)) = sub

\* Python's s[:n], negative n counted from the end
slice_to(s, n) ==
    IF n >= 0 THEN SubSeq(s, 1, Min(n, Len(s)))
    ELSE SubSeq(s, 1, Max(0, Len(s) + n))

Range(s) == {s[i] : i \in 1..Len(s)}

\* list(set(xs))[:n]: the iteration order of a set of strings is not fixed,
\* so every duplicate-free arrangement of the first entries is possible
list_of_set_to(S, n) ==
    LET k == Min(n, Cardinality(S))
    IN  {q \in [1..k -> S] : \A i, j \in 1..k : q[i] = q[j] => i = j}

----------------------------------------------------------------------------
(* routes/chatbot.py *)

NoCalls == <<>>
LLMCall == [api |-> "chat.completions", q |-> <<>>, lat |-> 0, lon |-> 0]

CLIMATE_TOPICS ==
    <<"Greenhouse Effect", "Carbon Footprint", "Renewable Energy",
      "Ocean Acidification", "Deforestation", "Climate Adaptation",
      "Weather vs Climate", "Biodiversity Loss", "Sustainable Living",
      "Climate Solutions">>

topic_keywords ==
    << [keyword |-> <<"g","r","e","e","n","h","o","u","s","e">>,
        topics |-> <<"Carbon Footprint", "Renewable Energy">>],
       [keyword |-> <<"c","a","r","b","o","n">>,
        topics |-> <<"Greenhouse Effect", "Carbon Footprint">>],
       [keyword |-> <<"e","n","e","r","g","y">>,
        topics |-> <<"Renewable Energy", "Sustainable Living">>],
       [keyword |-> <<"o","c","e","a","n">>,
        topics |-> <<"Ocean Acidification", "Biodiversity Loss">>],
       [keyword |-> <<"w","e","a","t","h","e","r">>,
        topics |-> <<"Weather vs Climate", "Climate Adaptation">>],
       [keyword |-> <<"t","r","e","e">>,
        topics |-> <<"Deforestation", "Biodiversity Loss">>],
       [keyword |-> <<"s","u","s","t","a","i","n","a","b","l","e">>,
        topics |-> <<"Sustainable Living", "Climate Solutions">>],
       [keyword |-> <<"b","i","o","d","i","v","e","r","s","i","t","y">>,
        topics |-> <<"Biodiversity Loss", "Deforestation">>],
       [keyword |-> <<"a","d","a","p","t","a","t","i","o","n">>,
        topics |-> <<"Climate Adaptation", "Climate Solutions">>] >>

DefaultSuggestions ==
    <<"Greenhouse Effect", "Renewable Energy", "Sustainable Living">>

FallbackSuggestions ==
    <<"Greenhouse Effect", "Carbon Footprint", "Climate vs Weather">>

\* the loop `for keyword, topics in topic_keywords.items()` up to entry k
RECURSIVE extend_suggestions(_, _)
extend_suggestions(message_lower, k) ==
    IF k = 0 THEN <<>>
    ELSE extend_suggestions(message_lower, k - 1)
         \o (IF contains(topic_keywords[k].keyword, message_lower)
             THEN topic_keywords[k].topics ELSE <<>>)

\* generate_suggested_topics without the set(): suggestions[:3]
generate_suggested_topics_no_set(user_message) ==
    LET message_lower == lower(user_message)
        suggestions == extend_suggestions(message_lower, Len(topic_keywords))
    IN  IF suggestions = <<>> THEN {DefaultSuggestions}
        ELSE {slice_to(suggestions, 3)}

\* generate_suggested_topics cutting before it deduplicates:
\* list(set(suggestions[:3]))
generate_suggested_topics_cut_first(user_message) ==
    LET message_lower == lower(user_message)
        suggestions == extend_suggestions(message_lower, Len(topic_keywords))
        limited == list_of_set_to(Range(slice_to(suggestions, 3)), 3)
    IN  IF suggestions = <<>> THEN {DefaultSuggestions} ELSE limited

\* the lists generate_suggested_topics can return for a message
generate_suggested_topics(user_message) ==
    LET message_lower == lower(user_message)
        suggestions == extend_suggestions(message_lower, Len(topic_keywords))
        limited == list_of_set_to(Range(suggestions), 3)
    IN  IF suggestions = <<>> THEN {DefaultSuggestions} ELSE limited

\* outcomes of client.chat.completions.create
LLMReplies == {"completion", "APIConnectionError", "APIStatusError"}

HTTPError(code, detail, cs) ==
    [status |-> code, body |-> [detail |-> detail], calls |-> cs]

\* the responses chat_with_tutor can give
chat_with_tutor(cl, req, llm) ==
    IF cl = "None"
    THEN {[status |-> 200,
           body |-> [reply |-> "fallback_response",
                     suggested_topics |-> FallbackSuggestions],
           calls |-> NoCalls]}
    ELSE IF llm # "completion"
    THEN {HTTPError(500, "Error processing chat request", <<LLMCall>>)}
    ELSE {[status |-> 200,
           body |-> [reply |-> "assistant_reply", suggested_topics |-> t],
           calls |-> <<LLMCall>>] :
          t \in generate_suggested_topics(req.user_message)}

related_map ==
    << [key |-> <<"g","r","e","e","n","h","o","u","s","e"," ","e","f","f","e","c","t">>,
        related |-> <<"Carbon Footprint", "Climate Solutions">>],
       [key |-> <<"c","a","r","b","o","n"," ","f","o","o","t","p","r","i","n","t">>,
        related |-> <<"Greenhouse Effect", "Sustainable Living">>],
       [key |-> <<"r","e","n","e","w","a","b","l","e"," ","e","n","e","r","g","y">>,
        related |-> <<"Climate Solutions", "Sustainable Living">>],
       [key |-> <<"o","c","e","a","n"," ","a","c","i","d","i","f","i","c","a","t","i","o","n">>,
        related |-> <<"Biodiversity Loss", "Climate Adaptation">>],
       [key |-> <<"d","e","f","o","r","e","s","t","a","t","i","o","n">>,
        related |-> <<"Biodiversity Loss", "Carbon Footprint">>],
       [key |-> <<"c","l","i","m","a","t","e"," ","a","d","a","p","t","a","t","i","o","n">>,
        related |-> <<"Climate Solutions", "Weather vs Climate">>],
       [key |-> <<"w","e","a","t","h","e","r"," ","v","s"," ","c","l","i","m","a","t","e">>,
        related |-> <<"Climate Adaptation", "Greenhouse Effect">>],
       [key |-> <<"b","i","o","d","i","v","e","r","s","i","t","y"," ","l","o","s","s">>,
        related |-> <<"Deforestation", "Ocean Acidification">>],
       [key |-> <<"s","u","s","t","a","i","n","a","b","l","e"," ","l","i","v","i","n","g">>,
        related |-> <<"Carbon Footprint", "Renewable Energy">>],
       [key |-> <<"c","l","i","m","a","t","e"," ","s","o","l","u","t","i","o","n","s">>,
        related |-> <<"Renewable Energy", "Sustainable Living">>] >>

\* dict.get(key, default) on a table of [key, ...] records
HasKey(table, k) == \E i \in 1..Len(table) : table[i].key = k
Lookup(table, k) == table[CHOOSE i \in 1..Len(table) : table[i].key = k]

\* get_related_topics looking the topic up as it was typed
get_related_topics_exact(topic) ==
    IF HasKey(related_map, topic)
    THEN Lookup(related_map, topic).related
    ELSE <<"Greenhouse Effect", "Renewable Energy", "Sustainable Living">>

get_related_topics(topic) ==
    IF HasKey(related_map, lower(topic))
    THEN Lookup(related_map, lower(topic)).related
    ELSE <<"Greenhouse Effect", "Renewable Energy", "Sustainable Living">>

\* keys of the canned explanations of explain_topic
fallback_explanations ==
    { <<"g","r","e","e","n","h","o","u","s","e"," ","e","f","f","e","c","t">>,
      <<"c","a","r","b","o","n"," ","f","o","o","t","p","r","i","n","t">>,
      <<"r","e","n","e","w","a","b","l","e"," ","e","n","e","r","g","y">>,
      <<"c","l","i","m","a","t","e"," ","c","h","a","n","g","e">> }

explain_topic(cl, topic, llm) ==
    IF cl = "None"
    THEN [status |-> 200,
          body |-> [topic |-> topic,
                    explanation |->
                        IF lower(topic) \in fallback_explanations
                        THEN [text |-> "canned", key |-> lower(topic)]
                        ELSE [text |-> "generic", key |-> topic],
                    related_topics |-> get_related_topics(topic)],
          calls |-> NoCalls]
    ELSE IF llm # "completion"
    THEN HTTPError(500, "Error explaining topic", <<LLMCall>>)
    ELSE [status |-> 200,
          body |-> [topic |-> topic,
                    explanation |-> [text |-> "assistant", key |-> topic],
                    related_topics |-> get_related_topics(topic)],
          calls |-> <<LLMCall>>]

\* the start-up value of AVAILABLE_SUBJECTS: subject id -> record
AVAILABLE_SUBJECTS ==
    [climate_science |->
        [name |-> "Climate Science",
         description |-> "Core climate science concepts and mechanisms",
         topics |-> <<"Greenhouse Effect", "Global Warming",
                      "Climate Models", "Atmospheric Science">>],
     renewable_energy |->
        [name |-> "Renewable Energy",
         description |-> "Clean energy sources and technologies",
         topics |-> <<"Solar Power", "Wind Energy", "Hydroelectric",
                      "Geothermal Energy">>],
     sustainability |->
        [name |-> "Sustainability",
         description |-> "Sustainable living and environmental practices",
         topics |-> <<"Carbon Footprint", "Sustainable Living",
                      "Green Technology", "Environmental Conservation">>],
     climate_impacts |->
        [name |-> "Climate Impacts",
         description |->
            "Effects of climate change on ecosystems and society",
         topics |-> <<"Sea Level Rise", "Extreme Weather",
                      "Biodiversity Loss", "Food Security">>],
     climate_solutions |->
        [name |-> "Climate Solutions",
         description |->
            "Actions and technologies to address climate change",
         topics |-> <<"Carbon Capture", "Climate Adaptation",
                      "Policy Solutions", "Individual Actions">>]]

\* the response of GET /api/chat/topics, given the module's list
get_climate_topics(topics) ==
    [status |-> 200, body |-> [topics |-> topics], calls |-> NoCalls]

\* the response of GET /api/chat/subjects, given the module's dict
get_available_subjects(subjects) ==
    [status |-> 200, body |-> [subjects |-> subjects], calls |-> NoCalls]

\* get_subject_topics answering an unknown id with the first subject
get_subject_topics_default(subjects, subject_id) ==
    LET id == IF subject_id \in DOMAIN subjects
              THEN subject_id ELSE "climate_science"
    IN  [status |-> 200,
         body |-> [subject |-> subjects[id], topics |-> subjects[id].topics],
         calls |-> NoCalls]

\* the response of GET /api/chat/subjects/{subject_id}/topics
get_subject_topics(subjects, subject_id) ==
    IF subject_id \notin DOMAIN subjects
    THEN HTTPError(404, "Subject not found", NoCalls)
    ELSE [status |-> 200,
          body |-> [subject |-> subjects[subject_id],
                    topics |-> subjects[subject_id].topics],
          calls |-> NoCalls]

----------------------------------------------------------------------------
(* The weather provider as the handlers see it *)

\* a reply to requests.get(url): a JSON body, or one of the two ways the
\* call fails with a requests.RequestException (requests.get raising
\* ConnectionError/Timeout, raise_for_status raising HTTPError on non-2xx)
RequestException == {"ConnectionError", "HTTPError"}
Reply(kind, data) == [kind |-> kind, data |-> data]

\* outcome of a helper: a returned value, or a raised exception
\* (exc = "HTTPException" carries its status code in `code`)
Return(val, cs) == [exc |-> "", code |-> 0, val |-> val, calls |-> cs]
Raise(exc, code, cs) == [exc |-> exc, code |-> code, val |-> <<>>, calls |-> cs]

Call(api, q, lat, lon) == [api |-> api, q |-> q, lat |-> lat, lon |-> lon]

\* /weather payloads: two well-formed ones and one without the expected keys.
\* Of the fields the handlers copy into f-strings, temp and humidity stand
\* for the rest (pressure, wind, visibility), which are handled alike.
WeatherPayloads ==
    { [wellformed |-> TRUE, name |-> "London", country |-> "GB",
       lat |-> 51, lon |-> 0, temp |-> 18, humidity |-> 70],
      [wellformed |-> TRUE, name |-> "New York", country |-> "US",
       lat |-> 40, lon |-> -74, temp |-> 25, humidity |-> 55],
      [wellformed |-> FALSE, name |-> "", country |-> "",
       lat |-> 0, lon |-> 0, temp |-> 0, humidity |-> 0] }

WeatherReplies ==
    {Reply("json", d) : d \in WeatherPayloads}
    \cup {Reply(k, <<>>) : k \in RequestException}

\* concentrations are integers in hundredths of a microgram per cubic metre
Components(pm2_5, pm10, no2, o3, so2, co) ==
    [pm2_5 |-> pm2_5, pm10 |-> pm10, no2 |-> no2, o3 |-> o3, so2 |-> so2,
     co |-> co]

\* /air_pollution payloads
AirPayloads ==
    { [wellformed |-> TRUE, aqi |-> 2,
       components |-> Components(1234, 2018, 1561, 6832, 744, 1200000)],
      [wellformed |-> TRUE, aqi |-> 5,
       components |-> Components(8077, 12046, 4209, 1113, 2391, 53406)],
      [wellformed |-> FALSE, aqi |-> 0,
       components |-> Components(0, 0, 0, 0, 0, 0)] }

AirReplies ==
    {Reply("json", d) : d \in AirPayloads}
    \cup {Reply(k, <<>>) : k \in RequestException}

\* /forecast payloads: a list of 3-hour entries, dt_txt as the slot number
Conditions == <<"Clear", "Clouds", "Rain">>

ForecastEntry(i, v) ==
    [dt_txt |-> i, temp |-> 10 + ((i * v) % 7), humidity |-> 50 + i,
     main |-> Conditions[((i * v) % 3) + 1]]

ForecastPayload(n, v) ==
    [wellformed |-> TRUE, city |-> "London",
     list |-> [i \in 1..n |-> ForecastEntry(i, v)]]

ForecastPayloads ==
    { ForecastPayload(MaxForecast, 1), ForecastPayload(2, 2),
      [wellformed |-> FALSE, city |-> "", list |-> <<>>] }

ForecastReplies ==
    {Reply("json", d) : d \in ForecastPayloads}
    \cup {Reply(k, <<>>) : k \in RequestException}

\* random.randint(a, b), sampled: both ends and every multiple of RandStride
randint(a, b) == {x \in a..b : x = a \/ x = b \/ x % RandStride = 0}

\* round(num/den, 1) in tenths, for num >= 0; a tie goes to the even tenth
round1(num, den) ==
    LET q == (10 * num) \div den
        r == (10 * num) % den
    IN  IF 2 * r < den THEN q
        ELSE IF 2 * r > den THEN q + 1
        ELSE IF q % 2 = 0 THEN q ELSE q + 1

----------------------------------------------------------------------------
(* routes/dashboard.py *)

get_weather_data(city, r) ==
    LET cs == <<Call("weather", city, 0, 0)>>
    IN  IF r.kind \in RequestException
        THEN Raise("HTTPException", 400, cs)
        ELSE Return(r.data, cs)

\* get_forecast_data answering a failed fetch with an empty forecast
get_forecast_data_swallow(city, days, r) ==
    LET cs == <<Call("forecast", city, 0, 0)>>
    IN  IF r.kind \in RequestException \/ ~r.data.wellformed
        THEN Return([wellformed |-> TRUE, city |-> "", list |-> <<>>], cs)
        ELSE Return(r.data, cs)

get_forecast_data(city, days, r) ==
    LET cs == <<Call("forecast", city, 0, 0)>>
    IN  IF r.kind \in RequestException
        THEN Raise("HTTPException", 400, cs)
        ELSE Return(r.data, cs)

\* the mock readings of get_air_quality_data: aqi = random.randint(20, 150),
\* each component random.uniform over its range, sampled at the low ends
\* and at the high ends of the ranges
MockAirPayloads ==
    { [wellformed |-> TRUE, aqi |-> a, components |-> c] :
      a \in randint(20, 150),
      c \in { Components(1000, 2000, 1000, 5000, 500, 20000),
              Components(5000, 8000, 6000, 12000, 3000, 100000) } }

\* get_air_quality_data asking for the air at (0, 0) when the lookup of the
\* city's coordinates fails
get_air_quality_data_default_coords(city, rw, ra) ==
    LET weather_data == get_weather_data(city, rw)
        found == weather_data.exc = "" /\ weather_data.val.wellformed
        cs == weather_data.calls
              \o <<Call("air_pollution", <<>>,
                        IF found THEN weather_data.val.lat ELSE 0,
                        IF found THEN weather_data.val.lon ELSE 0)>>
    IN  IF ra.kind \in RequestException
        THEN {Return(m, cs) : m \in MockAirPayloads}
        ELSE {Return(ra.data, cs)}

\* the outcomes of get_air_quality_data, given the replies to its two calls
get_air_quality_data(city, rw, ra) ==
    LET weather_data == get_weather_data(city, rw)
        cs == weather_data.calls
              \o <<Call("air_pollution", <<>>,
                        weather_data.val.lat, weather_data.val.lon)>>
    IN  IF weather_data.exc # ""
        THEN {weather_data}         \* an HTTPException: not caught here
        ELSE IF ~weather_data.val.wellformed
        THEN {Raise("KeyError", 0, weather_data.calls)}
        ELSE IF ra.kind \in RequestException
        THEN {Return(m, cs) : m \in MockAirPayloads}
        ELSE {Return(ra.data, cs)}

\* get_aqi_category with `<` for `<=` in its first test
get_aqi_category_strict(aqi) ==
    IF aqi < 50 THEN "Good"
    ELSE IF aqi <= 100 THEN "Moderate"
    ELSE IF aqi <= 150 THEN "Unhealthy for Sensitive Groups"
    ELSE IF aqi <= 200 THEN "Unhealthy"
    ELSE IF aqi <= 300 THEN "Very Unhealthy"
    ELSE "Hazardous"

get_aqi_category(aqi) ==
    IF aqi <= 50 THEN "Good"
    ELSE IF aqi <= 100 THEN "Moderate"
    ELSE IF aqi <= 150 THEN "Unhealthy for Sensitive Groups"
    ELSE IF aqi <= 200 THEN "Unhealthy"
    ELSE IF aqi <= 300 THEN "Very Unhealthy"
    ELSE "Hazardous"

get_aqi_health_impact(aqi) ==
    IF aqi <= 50
    THEN "Air quality is satisfactory, and air pollution poses little or no risk."
    ELSE IF aqi <= 100
    THEN "Air quality is acceptable."
    ELSE IF aqi <= 150
    THEN "Members of sensitive groups may experience health effects."
    ELSE IF aqi <= 200
    THEN "Some members of the general public may experience health effects."
    ELSE IF aqi <= 300
    THEN "Health alert: The risk of health effects is increased for everyone."
    ELSE "Health warning of emergency conditions."

\* chart helpers never raise: an outcome is the returned dict and the calls
Chart(val, cs) == [val |-> val, calls |-> cs]

\* [f(xs[1]), ..., f(xs[n])] for the field getters used below
dt_txt_of(xs) == [i \in 1..Len(xs) |-> xs[i].dt_txt]
temp_of(xs) == [i \in 1..Len(xs) |-> xs[i].temp]
humidity_of(xs) == [i \in 1..Len(xs) |-> xs[i].humidity]

\* the dict has no "mock" key unless the data is the mock data
get_temperature_data(city, days, rf) ==
    LET forecast_data == get_forecast_data(city, days, rf)
        items == slice_to(forecast_data.val.list, days * 8)
    IN  IF forecast_data.exc # "" \/ ~forecast_data.val.wellformed
        THEN \* range(7) days from now, temperatures in tenths
             {Chart([dates |-> [i \in 1..7 |-> 1000 + 8 * (i - 1)],
                     temperatures |-> [i \in 1..7 |-> 150],
                     humidity |-> [i \in 1..7 |-> 400],
                     city |-> city, mock |-> TRUE],
                    forecast_data.calls)}
        ELSE {Chart([dates |-> dt_txt_of(items),
                     temperatures |-> temp_of(items),
                     humidity |-> humidity_of(items),
                     city |-> city, mock |-> FALSE],
                    forecast_data.calls)}

pollutants == <<"PM2.5", "PM10", "NO2", "O3", "SO2", "CO">>

\* values in tenths
get_air_quality_chart_data(city, rw, ra) ==
    UNION {
        IF air_quality_data.exc # "" \/ ~air_quality_data.val.wellformed
        THEN {Chart([pollutants |-> pollutants,
                     values |-> [i \in 1..6 |-> v],
                     city |-> city, mock |-> TRUE],
                    air_quality_data.calls) : v \in {100, 500}}
        ELSE LET components == air_quality_data.val.components
             IN  {Chart([pollutants |-> pollutants,
                         values |-> <<round1(components.pm2_5, 100),
                                      round1(components.pm10, 100),
                                      round1(components.no2, 100),
                                      round1(components.o3, 100),
                                      round1(components.so2, 100),
                                      round1(components.co, 100 * 1000)>>,
                         city |-> city, mock |-> FALSE],
                        air_quality_data.calls)}
        : air_quality_data \in get_air_quality_data(city, rw, ra) }

\* the dict weather_counts after the first k items: keys in insertion order
RECURSIVE weather_counts(_, _)
weather_counts(items, k) ==
    IF k = 0 THEN [conditions |-> <<>>, counts |-> <<>>]
    ELSE LET prev == weather_counts(items, k - 1)
             condition == items[k].main
         IN  IF \E j \in 1..Len(prev.conditions) : prev.conditions[j] = condition
             THEN [prev EXCEPT !.counts =
                      [j \in 1..Len(prev.counts) |->
                          IF prev.conditions[j] = condition
                          THEN prev.counts[j] + 1 ELSE prev.counts[j]]]
             ELSE [conditions |-> Append(prev.conditions, condition),
                   counts |-> Append(prev.counts, 1)]

\* get_weather_distribution_data counting over the window of `days` days
get_weather_distribution_data_window(city, days, rf) ==
    LET forecast_data == get_forecast_data(city, days, rf)
        items == slice_to(forecast_data.val.list, days * 8)
        wc == weather_counts(items, Len(items))
    IN  IF forecast_data.exc # "" \/ ~forecast_data.val.wellformed
        THEN {Chart([conditions |->
                        <<"Clear", "Clouds", "Rain", "Snow", "Thunderstorm">>,
                     counts |-> [i \in 1..5 |-> 5],
                     city |-> city, mock |-> TRUE],
                    forecast_data.calls)}
        ELSE {Chart([conditions |-> wc.conditions, counts |-> wc.counts,
                     city |-> city, mock |-> FALSE],
                    forecast_data.calls)}

get_weather_distribution_data(city, days, rf) ==
    LET forecast_data == get_forecast_data(city, days, rf)
        items == forecast_data.val.list
        wc == weather_counts(items, Len(items))
    IN  IF forecast_data.exc # "" \/ ~forecast_data.val.wellformed
        THEN {Chart([conditions |->
                        <<"Clear", "Clouds", "Rain", "Snow", "Thunderstorm">>,
                     counts |-> [i \in 1..5 |-> 5],
                     city |-> city, mock |-> TRUE],
                    forecast_data.calls)}
        ELSE {Chart([conditions |-> wc.conditions, counts |-> wc.counts,
                     city |-> city, mock |-> FALSE],
                    forecast_data.calls)}

\* f"{value}<unit>"
Fmt(value, unit) == [value |-> value, unit |-> unit]

NoCharts == [none |-> TRUE]

\* the responses of GET /api/dashboard/data, given the replies r.w1, r.w2,
\* r.a1, r.f1, r.f2, r.w3, r.a2, r.f3 to its outbound calls in program order
get_dashboard_data(city, days, data_type, r) ==
    LET Fail(cs) == HTTPError(500, "Error generating dashboard data", cs)
        weather_data == get_weather_data(city, r.w1)
        wd == weather_data.val
        current_weather ==
            [city |-> wd.name, country |-> wd.country,
             temperature |-> Fmt(wd.temp, "C"),
             humidity |-> Fmt(wd.humidity, "%")]
        forecast_data == get_forecast_data(city, days, r.f1)
        forecast ==
            LET items == slice_to(forecast_data.val.list, days * 8)
            IN  [i \in 1..Len(items) |->
                    [datetime |-> items[i].dt_txt,
                     temperature |-> Fmt(items[i].temp, "C"),
                     humidity |-> Fmt(items[i].humidity, "%"),
                     weather |-> items[i].main]]
        chart_data ==
            IF data_type \in {"all", "charts"}
            THEN {Chart([temperature |-> t.val, air_quality |-> q.val,
                         weather_distribution |-> d.val],
                        t.calls \o q.calls \o d.calls) :
                  t \in get_temperature_data(city, days, r.f2),
                  q \in get_air_quality_chart_data(city, r.w3, r.a2),
                  d \in get_weather_distribution_data(city, days, r.f3)}
            ELSE {Chart(NoCharts, NoCalls)}
        Bundle(aq, cd) ==
            LET aqi == aq.val.aqi
                components == aq.val.components
            IN  [status |-> 200,
                 body |->
                    [city |-> city,
                     current_weather |-> current_weather,
                     summary_stats |->
                        [avg_temperature |-> Fmt(wd.temp, "C"),
                         humidity |-> Fmt(wd.humidity, "%"),
                         air_quality |-> get_aqi_category(aqi)],
                     chart_data |-> cd.val,
                     air_quality |->
                        [aqi |-> aqi,
                         category |-> get_aqi_category(aqi),
                         health_impact |-> get_aqi_health_impact(aqi),
                         components |->
                            Components(round1(components.pm2_5, 100),
                                       round1(components.pm10, 100),
                                       round1(components.no2, 100),
                                       round1(components.o3, 100),
                                       round1(components.so2, 100),
                                       round1(components.co, 100))],
                     forecast |-> forecast],
                 calls |-> weather_data.calls \o aq.calls
                           \o forecast_data.calls \o cd.calls]
        AfterAirQuality(aq) ==
            IF aq.exc # "" \/ ~aq.val.wellformed
            THEN {Fail(weather_data.calls \o aq.calls)}
            ELSE IF forecast_data.exc # "" \/ ~forecast_data.val.wellformed
            THEN {Fail(weather_data.calls \o aq.calls \o forecast_data.calls)}
            ELSE {Bundle(aq, cd) : cd \in chart_data}
    IN  IF weather_data.exc # "" \/ ~wd.wellformed
        THEN {Fail(weather_data.calls)}
        ELSE UNION {AfterAirQuality(aq) :
                    aq \in get_air_quality_data(city, r.w2, r.a1)}

\* the responses of GET /api/dashboard/chart-data/{chart_type}
get_chart_data(chart_type, city, days, r) ==
    IF chart_type = "temperature"
    THEN {[status |-> 200, body |-> c.val, calls |-> c.calls] :
          c \in get_temperature_data(city, days, r.f2)}
    ELSE IF chart_type = "air_quality"
    THEN {[status |-> 200, body |-> c.val, calls |-> c.calls] :
          c \in get_air_quality_chart_data(city, r.w3, r.a2)}
    ELSE IF chart_type = "weather_distribution"
    THEN {[status |-> 200, body |-> c.val, calls |-> c.calls] :
          c \in get_weather_distribution_data(city, days, r.f3)}
    ELSE \* the HTTPException(400) is raised inside the try block and is
         \* caught by `except Exception`
         {HTTPError(500, "Error getting chart data", NoCalls)}

default_cities ==
    << [name |-> <<"L","o","n","d","o","n">>, country |-> "GB"],
       [name |-> <<"N","e","w"," ","Y","o","r","k">>, country |-> "US"],
       [name |-> <<"T","o","k","y","o">>, country |-> "JP"],
       [name |-> <<"P","a","r","i","s">>, country |-> "FR"],
       [name |-> <<"S","y","d","n","e","y">>, country |-> "AU"],
       [name |-> <<"M","u","m","b","a","i">>, country |-> "IN"],
       [name |-> <<"S","a~","o"," ","P","a","u","l","o">>, country |-> "BR"],
       [name |-> <<"C","a","i","r","o">>, country |-> "EG"],
       [name |-> <<"B","e","r","l","i","n">>, country |-> "DE"],
       [name |-> <<"B","e","i","j","i","n","g">>, country |-> "CN"] >>

Whitespace == {" ", "\t", "\n", "\r"}

\* str.strip(chars); str.strip() is strip(s, Whitespace)
RECURSIVE lstrip(_, _)
lstrip(s, chars) ==
    IF s # <<>> /\ Head(s) \in chars THEN lstrip(Tail(s), chars) ELSE s

RECURSIVE rstrip(_, _)
rstrip(s, chars) ==
    IF s # <<>> /\ s[Len(s)] \in chars
    THEN rstrip(SubSeq(s, 1, Len(s) - 1), chars) ELSE s

strip(s, chars) == rstrip(lstrip(s, chars), chars)

\* [city for city in cities if query.lower() in city["name"].lower()]
filter_cities(cities, query) ==
    LET Matches(city) == contains(lower(query), lower(city.name))
    IN  SelectSeq(cities, Matches)

\* the response of GET /api/dashboard/cities/search; a geocoding entry is
\* copied field by field, which raises KeyError when a field is missing
search_cities(query, limit, r) ==
    LET cs == <<Call("geo", query, 0, 0)>>
        data == r.data
        cities == [i \in 1..Len(data) |->
                      [name |-> data[i].name, country |-> data[i].country]]
        filtered_cities == slice_to(filter_cities(default_cities, query), limit)
    IN  IF query = <<>> \/ strip(query, Whitespace) = <<>>
        THEN [status |-> 200,
              body |-> [cities |-> slice_to(default_cities, limit)],
              calls |-> NoCalls]
        ELSE IF r.kind \in RequestException
        THEN [status |-> 200, body |-> [cities |-> filtered_cities],
              calls |-> cs]
        ELSE IF \E i \in 1..Len(data) : ~data[i].wellformed
        THEN \* KeyError is not a RequestException: the handler does not
             \* catch it and the framework answers 500
             HTTPError(500, "Internal Server Error", cs)
        ELSE IF cities = <<>>
        THEN [status |-> 200, body |-> [cities |-> filtered_cities],
              calls |-> cs]
        ELSE [status |-> 200, body |-> [cities |-> cities], calls |-> cs]

----------------------------------------------------------------------------
(* visualization/piechart.py and visualization/barchart.py *)

\* dict.get(key, default)
Get(d, key, default) == IF key \in DOMAIN d THEN d[key] ELSE default

\* a chart value is a float: the quotient num/den of two integers
Quot(num, den) == [num |-> num, den |-> den]

component_keys == <<"pm2_5", "pm10", "no2", "o3", "so2", "co">>

\* create_air_quality_pie_chart plotting CO as it comes
create_air_quality_pie_chart_raw(components, city) ==
    [chart_type |-> "air_quality_pie",
     labels |-> pollutants,
     values |-> [i \in 1..6 |-> Quot(Get(components, component_keys[i], 0),
                                     100)],
     city |-> city]

\* the labels and values of the go.Pie trace of create_air_quality_pie_chart
create_air_quality_pie_chart(components, city) ==
    [chart_type |-> "air_quality_pie",
     labels |-> pollutants,
     values |-> <<Quot(Get(components, "pm2_5", 0), 100),
                  Quot(Get(components, "pm10", 0), 100),
                  Quot(Get(components, "no2", 0), 100),
                  Quot(Get(components, "o3", 0), 100),
                  Quot(Get(components, "so2", 0), 100),
                  Quot(Get(components, "co", 0), 100 * 1000)>>,
     city |-> city]

\* the x and y of the go.Bar trace of create_air_quality_bar_chart
create_air_quality_bar_chart(air_quality_data, city) ==
    [chart_type |-> "air_quality_bar",
     labels |-> pollutants,
     values |->
        [i \in 1..6 |->
            LET component == component_keys[i]
            IN  IF air_quality_data # <<>>
                   /\ component \in DOMAIN air_quality_data[1]
                THEN IF component = "co"
                     THEN Quot(air_quality_data[1][component], 100 * 1000)
                     ELSE Quot(air_quality_data[1][component], 100)
                ELSE Quot(0, 100)],
     city |-> city]

----------------------------------------------------------------------------
(* routes/weather.py *)

get_current_weather(city, country_code, r) ==
    LET cleaned == strip(strip(strip(strip(city, Whitespace), {"\""}), {"'"}),
                         Whitespace)
        location == IF country_code # <<>>
                    THEN cleaned \o <<",">> \o country_code ELSE cleaned
        cs == <<Call("weather", location, 0, 0)>>
        data == r.data
    IN  IF cleaned = <<>> \/ Len(cleaned) < 2
        THEN HTTPError(400, "City name must be at least 2 characters long",
                       NoCalls)
        ELSE IF r.kind \in RequestException
        THEN HTTPError(400, "Error fetching weather", cs)
        ELSE IF ~data.wellformed
        THEN HTTPError(500, "Error parsing weather data", cs)
        ELSE [status |-> 200,
              body |-> [city |-> data.name, country |-> data.country,
                        temperature |-> Fmt(data.temp, "C"),
                        humidity |-> Fmt(data.humidity, "%")],
              calls |-> cs]

get_weather_forecast(city, days, r) ==
    LET cleaned == strip(strip(strip(city, Whitespace), {"\""}), {"'"})
        cs == <<Call("forecast", cleaned, 0, 0)>>
        data == r.data
        items == slice_to(data.list, days * 8)
    IN  IF r.kind \in RequestException
        THEN HTTPError(400, "Error fetching forecast", cs)
        ELSE IF ~data.wellformed
        THEN HTTPError(500, "Error parsing forecast data", cs)
        ELSE [status |-> 200,
              body |-> [city |-> data.city,
                        forecast |->
                            [i \in 1..Len(items) |->
                                [datetime |-> items[i].dt_txt,
                                 temperature |-> Fmt(items[i].temp, "C"),
                                 humidity |-> Fmt(items[i].humidity, "%"),
                                 weather |-> items[i].main]]],
              calls |-> cs]

----------------------------------------------------------------------------
(* data_processing/weather.py *)

\* fetch_weather(city): the dict returned (`body`), and the call made; no
\* exception of the fetch leaves the function, which is not an HTTP handler:
\* `status` 200 stands for its returning
fetch_weather(city, r) ==
    LET cleaned == strip(strip(strip(city, Whitespace), {"\""}), {"'"})
        cs == <<Call("weather", cleaned, 0, 0)>>
        data == r.data
    IN  IF r.kind \in RequestException
        THEN [status |-> 200,
              body |-> [error |-> "Error fetching weather", city |-> cleaned],
              calls |-> cs]
        ELSE IF ~data.wellformed
        THEN [status |-> 200,
              body |-> [error |-> "Error parsing weather data",
                        city |-> cleaned],
              calls |-> cs]
        ELSE [status |-> 200,
              body |-> [status |-> "success",
                        temperature |-> Fmt(data.temp, "C"),
                        humidity |-> Fmt(data.humidity, "%")],
              calls |-> cs]

----------------------------------------------------------------------------
(* routes/weather.py, continued *)

\* get_air_quality with `<` for `<=` in its first test
get_air_quality_strict(city) ==
    { [status |-> 200,
       body |-> [city |-> city, aqi |-> aqi,
                 category |->
                    IF aqi < 50 THEN "Good"
                    ELSE IF aqi <= 100 THEN "Moderate"
                    ELSE IF aqi <= 150 THEN "Unhealthy for Sensitive Groups"
                    ELSE "Unhealthy",
                 health_impact |->
                    IF aqi < 50 THEN "Air quality is satisfactory"
                    ELSE IF aqi <= 100 THEN "Sensitive people"
                    ELSE IF aqi <= 150 THEN "Children and people"
                    ELSE "Everyone",
                 pollutants |-> p],
       calls |-> NoCalls] :
      aqi \in 20..150,
      p \in { [pm2_5 |-> 100, pm10 |-> 200, o3 |-> 500, no2 |-> 200],
              [pm2_5 |-> 500, pm10 |-> 800, o3 |-> 1200, no2 |-> 600] } }

\* the responses of GET /api/weather/air-quality/{city}: aqi is
\* random.randint(20, 150), any of those values; the pollutants are
\* random.uniform readings in tenths, sampled at both ends of their ranges
get_air_quality(city) ==
    { [status |-> 200,
       body |-> [city |-> city, aqi |-> aqi,
                 category |->
                    IF aqi <= 50 THEN "Good"
                    ELSE IF aqi <= 100 THEN "Moderate"
                    ELSE IF aqi <= 150 THEN "Unhealthy for Sensitive Groups"
                    ELSE "Unhealthy",
                 health_impact |->
                    IF aqi <= 50 THEN "Air quality is satisfactory"
                    ELSE IF aqi <= 100 THEN "Sensitive people"
                    ELSE IF aqi <= 150 THEN "Children and people"
                    ELSE "Everyone",
                 pollutants |-> p],
       calls |-> NoCalls] :
      aqi \in 20..150,
      p \in { [pm2_5 |-> 100, pm10 |-> 200, o3 |-> 500, no2 |-> 200],
              [pm2_5 |-> 500, pm10 |-> 800, o3 |-> 1200, no2 |-> 600] } }

sample_cities ==
    << [name |-> <<"L","o","n","d","o","n">>, country |-> "GB"],
       [name |-> <<"N","e","w"," ","Y","o","r","k">>, country |-> "US"],
       [name |-> <<"T","o","k","y","o">>, country |-> "JP"],
       [name |-> <<"P","a","r","i","s">>, country |-> "FR"],
       [name |-> <<"S","y","d","n","e","y">>, country |-> "AU"],
       [name |-> <<"M","u","m","b","a","i">>, country |-> "IN"],
       [name |-> <<"S","a~","o"," ","P","a","u","l","o">>, country |-> "BR"],
       [name |-> <<"C","a","i","r","o">>, country |-> "EG"],
       [name |-> <<"L","a","g","o","s">>, country |-> "NG"],
       [name |-> <<"B","a","n","g","k","o","k">>, country |-> "TH"] >>

\* the response of GET /api/weather/cities/search
weather_search_cities(query, limit) ==
    [status |-> 200,
     body |-> [cities |-> slice_to(filter_cities(sample_cities, query), limit)],
     calls |-> NoCalls]

----------------------------------------------------------------------------
(* Inputs of the chat endpoints *)

Fragments ==
    { <<"G","r","e","e","n","h","o","u","s","e">>,
      <<"C","A","R","B","O","N">>,
      <<"e","n","e","r","g","y">>,
      <<"O","c","e","a","n"," ","w","e","a","t","h","e","r">>,
      <<"w","e","a","t","h","e","r">>,
      <<"s","t","r","e","e","t">>,
      <<"s","u","s","t","a","i","n","a","b","l","e">>,
      <<"b","i","o","d","i","v","e","r","s","i","t","y">>,
      <<"a","d","a","p","t","a","t","i","o","n">>,
      <<"h","e","l","l","o">>,
      <<"c","a","r">>,
      <<"b","o","n"," ">> }

RECURSIVE Concat(_)
Concat(ws) == IF ws = <<>> THEN <<>> ELSE Head(ws) \o Concat(Tail(ws))

Messages ==
    {Concat(ws) : ws \in UNION {[1..n -> Fragments] : n \in 0..MaxWords}}

ExplainTopics ==
    { <<"G","r","e","e","n","h","o","u","s","e"," ","E","f","f","e","c","t">>,
      <<"g","r","e","e","n","h","o","u","s","e"," ","e","f","f","e","c","t">>,
      <<"C","A","R","B","O","N"," ","F","O","O","T","P","R","I","N","T">>,
      <<"C","l","i","m","a","t","e"," ","C","h","a","n","g","e">>,
      <<"D","e","f","o","r","e","s","t","a","t","i","o","n">>,
      <<"O","c","e","a","n">>,
      <<>> }

----------------------------------------------------------------------------
(* The state machine *)

NoRequest == [none |-> TRUE]

Init ==
    /\ client \in {"None", "OpenAI"}
    /\ climate_topics = CLIMATE_TOPICS
    /\ available_subjects = AVAILABLE_SUBJECTS
    /\ pc = "idle"
    /\ endpoint = "none"
    /\ request = NoRequest
    /\ status = 0
    /\ body = [none |-> TRUE]
    /\ calls = NoCalls

\* a handler that gives up the language-model handle when it answers 500
Handled_drops_client(ep, req, resp) ==
    /\ pc' = "done"
    /\ endpoint' = ep
    /\ request' = req
    /\ status' = resp.status
    /\ body' = resp.body
    /\ calls' = resp.calls
    /\ client' = IF resp.status = 500 THEN "None" ELSE client
    /\ UNCHANGED <<climate_topics, available_subjects>>

\* the handler `ep` ran on request `req` and produced `resp`
Handled(ep, req, resp) ==
    /\ pc' = "done"
    /\ endpoint' = ep
    /\ request' = req
    /\ status' = resp.status
    /\ body' = resp.body
    /\ calls' = resp.calls
    /\ UNCHANGED module_state

\* POST /api/chat/
ChatWithTutor ==
    /\ pc = "idle"
    /\ \E msg \in Messages, llm \in LLMReplies :
        LET req == [user_message |-> msg, llm |-> llm]
        IN  \E resp \in chat_with_tutor(client, req, llm) :
                Handled("chat_with_tutor", req, resp)

\* GET /api/chat/explain/{topic}
ExplainTopic ==
    /\ pc = "idle"
    /\ \E topic \in ExplainTopics, llm \in LLMReplies :
        Handled("explain_topic", [topic |-> topic, llm |-> llm],
                explain_topic(client, topic, llm))

\* ids asked of the subject catalog: its keys, and ids that are no key
SubjectIds ==
    DOMAIN AVAILABLE_SUBJECTS
    \cup {"nonexistent", "Climate_Science", "climate science", ""}

\* GET /api/chat/topics
GetClimateTopics ==
    /\ pc = "idle"
    /\ Handled("get_climate_topics", NoRequest,
               get_climate_topics(climate_topics))

\* GET /api/chat/subjects
GetAvailableSubjects ==
    /\ pc = "idle"
    /\ Handled("get_available_subjects", NoRequest,
               get_available_subjects(available_subjects))

\* GET /api/chat/subjects/{subject_id}/topics
GetSubjectTopics ==
    /\ pc = "idle"
    /\ \E subject_id \in SubjectIds :
        Handled("get_subject_topics", [subject_id |-> subject_id],
                get_subject_topics(available_subjects, subject_id))

----------------------------------------------------------------------------
(* Inputs of the weather and dashboard endpoints *)

Cities ==
    { <<"L","o","n","d","o","n">>,
      <<" ","L","o","n","d","o","n"," ">>,
      <<"\"","P","a","r","i","s","\"">>,
      <<"'","R","i","o","'">>,
      <<"\""," ","O","s","l","o"," ","\"">>,
      <<"L">>,
      <<"'","\"","a","\"","'">>,
      <<" ","\"","'","\""," ">>,
      <<>> }

DashCities == { <<"L","o","n","d","o","n">>, <<" ","R","i","o"," ">> }

CountryCodes == { <<>>, <<"G","B">> }

Days == (0 - MaxDays)..MaxDays

DataTypes == {"all", "charts", "weather"}

ChartTypes == {"temperature", "air_quality", "weather_distribution", "pie"}

Queries ==
    { <<>>, <<" ">>, <<" ","\t">>,
      <<"L","o","n">>, <<"l","o","n">>, <<"L","O","N">>,
      <<"o">>, <<"a">>, <<"B","e">>, <<"x","y","z">>,
      <<"n","e","w"," ","y","o","r","k">> }

Limits == (0 - 2)..MaxLimit

\* /geo/1.0/direct payloads: lists of entries, the last one with an entry
\* that lacks a field
GeoPayloads ==
    { <<>>,
      << [wellformed |-> TRUE, name |-> <<"L","o","n","d","o","n">>,
          country |-> "GB"] >>,
      << [wellformed |-> TRUE, name |-> <<"L","o","n","d","o","n">>,
          country |-> "GB"],
         [wellformed |-> TRUE, name |-> <<"L","o","n","d","o","n">>,
          country |-> "CA"] >>,
      << [wellformed |-> FALSE, name |-> <<"L","o","n","d","o","n">>,
          country |-> ""] >> }

GeoReplies ==
    {Reply("json", d) : d \in GeoPayloads}
    \cup {Reply(k, <<>>) : k \in RequestException}

\* the reply slot of a call the handler is known not to make
Unused == Reply("unused", <<>>)

NoReplies ==
    [w1 |-> Unused, w2 |-> Unused, a1 |-> Unused, f1 |-> Unused,
     f2 |-> Unused, w3 |-> Unused, a2 |-> Unused, f3 |-> Unused]

\* whether get_air_quality_data gets as far as its air_pollution call when
\* its weather call is answered by rw
air_pollution_called(city, rw) ==
    \E x \in get_air_quality_data(city, rw, Unused) : Len(x.calls) = 2

\* GET /api/weather/current/{city}
GetCurrentWeather ==
    /\ pc = "idle"
    /\ \E city \in Cities, country_code \in CountryCodes, r \in WeatherReplies :
        Handled("get_current_weather",
                [city |-> city, country_code |-> country_code,
                 env |-> [NoReplies EXCEPT !.w1 = r]],
                get_current_weather(city, country_code, r))

\* fetch_weather(city), the tool function of data_processing/weather.py
FetchWeather ==
    /\ pc = "idle"
    /\ \E city \in Cities, r \in WeatherReplies :
        Handled("fetch_weather",
                [city |-> city, env |-> [NoReplies EXCEPT !.w1 = r]],
                fetch_weather(city, r))

\* GET /api/weather/forecast/{city}
GetWeatherForecast ==
    /\ pc = "idle"
    /\ \E city \in Cities, days \in Days, r \in ForecastReplies :
        Handled("get_weather_forecast",
                [city |-> city, days |-> days,
                 env |-> [NoReplies EXCEPT !.f1 = r]],
                get_weather_forecast(city, days, r))

\* GET /api/weather/cities/search
WeatherSearchCities ==
    /\ pc = "idle"
    /\ \E query \in Queries, limit \in Limits :
        Handled("weather_search_cities",
                [query |-> query, limit |-> limit, env |-> NoReplies],
                weather_search_cities(query, limit))

\* GET /api/dashboard/cities/search
SearchCities ==
    /\ pc = "idle"
    /\ \E query \in Queries, limit \in Limits, r \in GeoReplies :
        Handled("search_cities",
                [query |-> query, limit |-> limit, geo |-> r,
                 env |-> NoReplies],
                search_cities(query, limit, r))

\* GET /api/dashboard/data; the replies to the chart fetches are drawn only
\* when the handler gets as far as fetching the charts
GetDashboardData ==
    /\ pc = "idle"
    /\ \E city \in DashCities, days \in Days, data_type \in DataTypes,
          w1 \in WeatherReplies, w2 \in WeatherReplies,
          a1 \in AirReplies, f1 \in ForecastReplies :
        LET core == [NoReplies EXCEPT !.w1 = w1, !.w2 = w2, !.a1 = a1,
                                      !.f1 = f1]
            charts_fetched ==
                /\ data_type \in {"all", "charts"}
                /\ \A resp \in get_dashboard_data(city, days, "", core) :
                       resp.status = 200
        IN  \E f2 \in IF charts_fetched THEN ForecastReplies ELSE {Unused},
               w3 \in IF charts_fetched THEN WeatherReplies ELSE {Unused},
               f3 \in IF charts_fetched THEN ForecastReplies ELSE {Unused} :
            \E a2 \in IF charts_fetched /\ air_pollution_called(city, w3)
                      THEN AirReplies ELSE {Unused} :
                LET r == [core EXCEPT !.f2 = f2, !.w3 = w3, !.a2 = a2,
                                      !.f3 = f3]
                IN  \E resp \in get_dashboard_data(city, days, data_type, r) :
                        Handled("get_dashboard_data",
                                [city |-> city, days |-> days,
                                 data_type |-> data_type, env |-> r],
                                resp)

\* GET /api/dashboard/chart-data/{chart_type}
GetChartData ==
    /\ pc = "idle"
    /\ \E chart_type \in ChartTypes, city \in DashCities, days \in Days :
       \E f2 \in IF chart_type = "temperature"
                 THEN ForecastReplies ELSE {Unused},
          w3 \in IF chart_type = "air_quality"
                 THEN WeatherReplies ELSE {Unused},
          f3 \in IF chart_type = "weather_distribution"
                 THEN ForecastReplies ELSE {Unused} :
       \E a2 \in IF chart_type = "air_quality"
                    /\ air_pollution_called(city, w3)
                 THEN AirReplies ELSE {Unused} :
        LET r == [NoReplies EXCEPT !.f2 = f2, !.w3 = w3, !.a2 = a2, !.f3 = f3]
        IN  \E resp \in get_chart_data(chart_type, city, days, r) :
                Handled("get_chart_data",
                        [chart_type |-> chart_type, city |-> city,
                         days |-> days, env |-> r],
                        resp)

\* CO concentrations handed to the chart builders, in hundredths of a
\* microgram per cubic metre: 0, 0.04, 534.06, 999.99 and 12000
COReadings == {0, 4, 53406, 99999, 1200000}

\* the `components` dicts handed to the chart builders: complete ones, one
\* without the "co" key, one without "pm10", and the empty dict
ComponentDicts ==
    LET Full(co) == Components(1234, 2018, 1561, 6832, 744, co)
        Without(d, key) == [k \in DOMAIN d \ {key} |-> d[k]]
    IN  {Full(co) : co \in COReadings}
        \cup {Without(Full(53406), "co"), Without(Full(53406), "pm10"),
              [k \in {} |-> 0]}

\* create_air_quality_pie_chart(components, city)
CreateAirQualityPieChart ==
    /\ pc = "idle"
    /\ \E components \in ComponentDicts :
        Handled("create_air_quality_pie_chart",
                [components |-> components, city |-> "London"],
                [status |-> 200,
                 body |-> create_air_quality_pie_chart(components, "London"),
                 calls |-> NoCalls])

\* create_air_quality_bar_chart(air_quality_data, city): the list is empty,
\* or has one or two entries
CreateAirQualityBarChart ==
    /\ pc = "idle"
    /\ \E air_quality_data \in
            {<<>>} \cup {<<d>> : d \in ComponentDicts}
            \cup {<<d, Components(0, 0, 0, 0, 0, 0)>> : d \in ComponentDicts} :
        Handled("create_air_quality_bar_chart",
                [air_quality_data |-> air_quality_data, city |-> "London"],
                [status |-> 200,
                 body |-> create_air_quality_bar_chart(air_quality_data,
                                                       "London"),
                 calls |-> NoCalls])

\* get_aqi_category and get_aqi_health_impact applied to one aqi, as in
\* get_dashboard_data
AqiValues == (0 - 5)..MaxAqi

ClassifyAqi ==
    /\ pc = "idle"
    /\ \E aqi \in AqiValues :
        Handled("get_aqi_category", [aqi |-> aqi],
                [status |-> 200,
                 body |-> [aqi |-> aqi,
                           category |-> get_aqi_category(aqi),
                           health_impact |-> get_aqi_health_impact(aqi)],
                 calls |-> NoCalls])

\* The two weather endpoints once more, step by step: the handler validates
\* its input, calls requests.get(url) and waits in it (pc = "waiting")
\* until the provider answers (pc = "answered"), then goes on to build its
\* response. requests.get is given no `timeout` argument, so nothing but
\* the provider's answer ends the wait.
Blocked(ep, req, issued) ==
    /\ issued # NoCalls
    /\ pc' = "waiting"
    /\ endpoint' = ep
    /\ request' = req
    /\ calls' = issued
    /\ UNCHANGED <<status, body, module_state>>

\* get_current_weather up to its requests.get(url)
CurrentWeatherCallsProvider ==
    /\ pc = "idle"
    /\ \E city \in Cities, country_code \in CountryCodes :
        Blocked("get_current_weather",
                [city |-> city, country_code |-> country_code,
                 env |-> NoReplies],
                get_current_weather(city, country_code,
                                    Reply("ConnectionError", <<>>)).calls)

\* get_weather_forecast up to its requests.get(url)
ForecastCallsProvider ==
    /\ pc = "idle"
    /\ \E city \in Cities, days \in Days :
        Blocked("get_weather_forecast",
                [city |-> city, days |-> days, env |-> NoReplies],
                get_weather_forecast(city, days,
                                     Reply("ConnectionError", <<>>)).calls)

\* the provider answers the call, or the connection fails: requests.get
\* returns or raises
ProviderAnswers ==
    /\ pc = "waiting"
    /\ pc' = "answered"
    /\ \/ /\ endpoint = "get_current_weather"
          /\ \E r \in WeatherReplies :
                request' = [request EXCEPT !.env.w1 = r]
       \/ /\ endpoint = "get_weather_forecast"
          /\ \E r \in ForecastReplies :
                request' = [request EXCEPT !.env.f1 = r]
    /\ UNCHANGED <<endpoint, status, body, calls, module_state>>

\* the handler runs from the return of requests.get to its end
HandlerResumes ==
    /\ pc = "answered"
    /\ Handled(endpoint, request,
               IF endpoint = "get_current_weather"
               THEN get_current_weather(request.city, request.country_code,
                                        request.env.w1)
               ELSE get_weather_forecast(request.city, request.days,
                                         request.env.f1))

\* GET /api/weather/air-quality/{city}
GetAirQuality ==
    /\ pc = "idle"
    /\ \E city \in Cities :
        \E resp \in get_air_quality(city) :
            Handled("get_air_quality", [city |-> city, env |-> NoReplies],
                    resp)

\* the response is sent and the worker takes the next request
Respond ==
    /\ pc = "done"
    /\ pc' = "idle"
    /\ endpoint' = "none"
    /\ request' = NoRequest
    /\ status' = 0
    /\ body' = [none |-> TRUE]
    /\ calls' = NoCalls
    /\ UNCHANGED module_state

NextChat ==
    \/ ChatWithTutor \/ ExplainTopic
    \/ GetClimateTopics \/ GetAvailableSubjects \/ GetSubjectTopics
    \/ Respond

SpecChat == Init /\ [][NextChat]_vars

NextWeather ==
    \/ GetCurrentWeather \/ GetWeatherForecast \/ WeatherSearchCities
    \/ FetchWeather
    \/ SearchCities \/ GetDashboardData \/ GetChartData
    \/ CreateAirQualityPieChart \/ CreateAirQualityBarChart \/ Respond

\* the weather and dashboard handlers never read the language-model handle
InitWeather == Init /\ client = "OpenAI"

SpecWeather == InitWeather /\ [][NextWeather]_vars

NextAqi == ClassifyAqi \/ GetAirQuality \/ Respond

SpecAqi == InitWeather /\ [][NextAqi]_vars

NextBlocking ==
    \/ CurrentWeatherCallsProvider \/ ForecastCallsProvider
    \/ ProviderAnswers \/ HandlerResumes \/ Respond

\* the worker's own steps are taken whenever they can be; when, and whether,
\* the provider answers is not in the worker's hands
SpecBlocking ==
    /\ InitWeather
    /\ [][NextBlocking]_vars
    /\ WF_vars(HandlerResumes)
    /\ WF_vars(Respond)

Next == NextChat \/ NextWeather \/ NextAqi \/ NextBlocking

Spec == Init /\ [][Next]_vars

----------------------------------------------------------------------------
(* Properties *)

\* the first n entries of s (none for n <= 0, all for n >= Len(s))
FirstEntries(s, n) == SubSeq(s, 1, Min(Max(n, 0), Len(s)))

NoDuplicates(s) == \A i, j \in 1..Len(s) : s[i] = s[j] => i = j

\* a fetch fails: network error, non-2xx response or malformed payload
NetworkOrStatusFailure(r) == r.kind \in RequestException
MalformedPayload(r) == r.kind = "json" /\ ~r.data.wellformed
FetchFails(r) == NetworkOrStatusFailure(r) \/ MalformedPayload(r)
FetchSucceeds(r) == r.kind = "json" /\ r.data.wellformed

Made(api) == \E i \in 1..Len(calls) : calls[i].api = api

\* C1: whenever the language-model backend is unavailable (handle not
\* initialised, or the completion call raising), chat_with_tutor and
\* explain_topic answer 200 with the canned fallback text.
C1_BackendFailureAbsorbed ==
    (/\ pc = "done"
     /\ endpoint \in {"chat_with_tutor", "explain_topic"}
     /\ (client = "None" \/ request.llm # "completion"))
    => /\ status = 200
       /\ IF endpoint = "chat_with_tutor"
          THEN body.reply = "fallback_response"
          ELSE body.explanation.text \in {"canned", "generic"}

\* C2: every ChatReply of chat_with_tutor, on the model path and on the
\* fallback path, has at most 3 suggested topics and none repeated.
C2_SuggestedTopicsBounded ==
    (pc = "done" /\ endpoint = "chat_with_tutor" /\ status = 200)
    => /\ Len(body.suggested_topics) <= 3
       /\ NoDuplicates(body.suggested_topics)

\* a model-path reply to a message whose keywords give more than 3 topics
\* and name one topic twice
C2_Witness ==
    /\ pc = "done" /\ endpoint = "chat_with_tutor" /\ status = 200
    /\ body.reply = "assistant_reply"
    /\ LET s == extend_suggestions(lower(request.user_message),
                                   Len(topic_keywords))
       IN  Len(s) > Cardinality(Range(s)) /\ Cardinality(Range(s)) > 3
    /\ Len(body.suggested_topics) = 3

\* the union U of the topic lists of the keywords occurring in the
\* lowercased message
MatchedTopics(message) ==
    UNION {Range(topic_keywords[k].topics) :
           k \in {j \in 1..Len(topic_keywords) :
                     contains(topic_keywords[j].keyword, lower(message))}}

\* C3: the suggestions for a message are exactly the default set when no
\* keyword occurs in it, and otherwise min(3, |U|) distinct members of U.
C3_SuggestionsFromMatchedKeywords ==
    (/\ pc = "done" /\ endpoint = "chat_with_tutor" /\ status = 200
     /\ body.reply = "assistant_reply")
    => LET U == MatchedTopics(request.user_message)
           t == body.suggested_topics
       IN  IF U = {}
           THEN Range(t) = Range(DefaultSuggestions) /\ Len(t) = 3
           ELSE /\ Range(t) \subseteq U
                /\ Len(t) = Min(3, Cardinality(U))
                /\ NoDuplicates(t)

\* the message "GreenhouseCARBON" matches only "greenhouse" and "carbon"
C3_Witness ==
    /\ pc = "done" /\ endpoint = "chat_with_tutor" /\ status = 200
    /\ body.reply = "assistant_reply"
    /\ request.user_message =
          <<"G","r","e","e","n","h","o","u","s","e","C","A","R","B","O","N">>
    /\ Len(body.suggested_topics) = 3
    /\ Range(body.suggested_topics) \subseteq
          {"Carbon Footprint", "Renewable Energy", "Greenhouse Effect"}

\* C4: when the current-weather fetch or the forecast fetch of
\* get_dashboard_data fails, the request ends in an error response and no
\* bundle, partial or synthetic, is returned.
C4_RequiredFetchFailureIsFatal ==
    (/\ pc = "done" /\ endpoint = "get_dashboard_data"
     /\ (FetchFails(request.env.w1) \/ FetchFails(request.env.f1)))
    => status >= 400 /\ DOMAIN body = {"detail"}

\* the forecast fetch is reached and fails after current weather and air
\* quality were fetched
C4_Witness ==
    /\ pc = "done" /\ endpoint = "get_dashboard_data"
    /\ FetchSucceeds(request.env.w1)
    /\ NetworkOrStatusFailure(request.env.f1)
    /\ Made("air_pollution") /\ Made("forecast")
    /\ status >= 400

\* C5: if current weather and forecast are fetched, a failing air-quality
\* sub-fetch (air-pollution call or its own coordinate lookup) still gives
\* a bundle, with an integer aqi in [0,500] and all six components.
C5_AirQualityFailureAbsorbed ==
    (/\ pc = "done" /\ endpoint = "get_dashboard_data"
     /\ FetchSucceeds(request.env.w1) /\ FetchSucceeds(request.env.f1)
     /\ (FetchFails(request.env.w2) \/ FetchFails(request.env.a1)))
    => /\ status = 200
       /\ body.air_quality.aqi \in 0..500
       /\ DOMAIN body.air_quality.components =
             {"pm2_5", "pm10", "no2", "o3", "so2", "co"}

\* C6: a provider that is unreachable or rejects the request for current
\* weather or forecast makes the weather endpoints and the dashboard
\* endpoint answer 400.
C6_ProviderFailureIs400 ==
    (/\ pc = "done"
     /\ \/ /\ endpoint = "get_current_weather" /\ Made("weather")
           /\ NetworkOrStatusFailure(request.env.w1)
        \/ /\ endpoint = "get_weather_forecast"
           /\ NetworkOrStatusFailure(request.env.f1)
        \/ /\ endpoint = "get_dashboard_data"
           /\ NetworkOrStatusFailure(request.env.w1))
    => status = 400

\* the bands of the claim, stated as a table: the band of an aqi is the
\* number of boundaries below it
SeverityOrder ==
    <<"Good", "Moderate", "Unhealthy for Sensitive Groups", "Unhealthy",
      "Very Unhealthy", "Hazardous">>
Severity(category) ==
    CHOOSE i \in 1..Len(SeverityOrder) : SeverityOrder[i] = category
BandOf(aqi) == 1 + Cardinality({b \in {50, 100, 150, 200, 300} : aqi > b})

\* C7: get_aqi_category is the six-band step function with boundaries
\* 50/100/150/200/300, monotonic in severity, Good at 50, Moderate at 51,
\* Hazardous at 301; get_aqi_health_impact changes at the same boundaries.
C7_AqiBands ==
    (pc = "done" /\ endpoint = "get_aqi_category")
    => LET aqi == request.aqi
       IN  /\ body.category = SeverityOrder[BandOf(aqi)]
           /\ Severity(body.category) <= Severity(get_aqi_category(aqi + 1))
           /\ (aqi = 50 => body.category = "Good")
           /\ (aqi = 51 => body.category = "Moderate")
           /\ (aqi = 301 => body.category = "Hazardous")
           /\ (body.health_impact # get_aqi_health_impact(aqi + 1))
              <=> (body.category # get_aqi_category(aqi + 1))

C7_Witness ==
    /\ pc = "done" /\ endpoint = "get_aqi_category"
    /\ request.aqi = 301 /\ body.category = "Hazardous"

\* C8: the chart-data endpoint for its three chart types and the dashboard
\* city search answer 200 whatever way the provider call fails.
C8_SupplementaryFailuresAbsorbed ==
    (/\ pc = "done"
     /\ \/ /\ endpoint = "get_chart_data"
           /\ request.chart_type \in
                 {"temperature", "air_quality", "weather_distribution"}
        \/ endpoint = "search_cities")
    => status = 200

\* a query that is empty or consists of whitespace only
Blank(query) == strip(query, Whitespace) = <<>>

\* C9: search_cities with an empty or whitespace-only query returns the
\* first `limit` entries of the curated list and makes no provider request.
C9_BlankQueryGivesCuratedPrefix ==
    /\ (pc = "done" /\ endpoint = "search_cities" /\ Blank(request.query))
       => /\ status = 200
          /\ body.cities = FirstEntries(default_cities, request.limit)
          /\ calls = NoCalls
    /\ (pc = "done" /\ endpoint = "weather_search_cities"
        /\ Blank(request.query))
       => /\ status = 200
          /\ body.cities = FirstEntries(sample_cities, request.limit)
          /\ calls = NoCalls

\* C10: search_cities with a non-empty query whose geocoding call fails or
\* returns no result returns the curated cities containing the query
\* (case-insensitively), in curated order, truncated to `limit`.
C10_FallbackFiltersCuratedList ==
    (/\ pc = "done" /\ endpoint = "search_cities" /\ ~Blank(request.query)
     /\ \/ NetworkOrStatusFailure(request.geo)
        \/ request.geo.kind = "json"
           /\ (request.geo.data = <<>>
               \/ \E i \in 1..Len(request.geo.data) :
                     ~request.geo.data[i].wellformed))
    => /\ status = 200
       /\ body.cities =
             FirstEntries(
                 SelectSeq(default_cities,
                           LAMBDA c : contains(lower(request.query),
                                               lower(c.name))),
                 request.limit)

\* what is left of a city name when whitespace and quote characters are
\* trimmed from both of its ends
Trimmed(city) == strip(city, Whitespace \cup {"\"", "'"})

\* C11: GET /api/weather/current/{city} answers a city that, trimmed of
\* whitespace and surrounding quote characters, is empty or shorter than 2
\* characters with status 400 (no other status), and makes no provider
\* request for it.
C11_ShortCityRejected ==
    (/\ pc = "done"
     /\ endpoint = "get_current_weather"
     /\ Len(Trimmed(request.city)) < 2)
    => (status = 400 /\ calls = NoCalls)

\* C12: GET /api/chat/subjects/{id}/topics answers 404 for an id that is no
\* key of the subject mapping, answers a key with that subject's record and
\* its topics list, and the mapping is at every moment the start-up mapping.
C12_SubjectTopicsLookup ==
    /\ available_subjects = AVAILABLE_SUBJECTS
    /\ (pc = "done" /\ endpoint = "get_subject_topics") =>
        LET id == request.subject_id
        IN  IF id \in DOMAIN AVAILABLE_SUBJECTS
            THEN /\ status = 200
                 /\ body.subject = AVAILABLE_SUBJECTS[id]
                 /\ body.topics = AVAILABLE_SUBJECTS[id].topics
            ELSE status = 404

\* an id that differs from a key only in case is answered 404
C12_Witness ==
    /\ pc = "done"
    /\ endpoint = "get_subject_topics"
    /\ request.subject_id = "Climate_Science"
    /\ status = 404

Abs(x) == IF x < 0 THEN 0 - x ELSE x

\* a float chart value q is the reading n (hundredths of a microgram per
\* cubic metre) divided by `by`
IsReading(q, n, by) == q.den % 100 = 0 /\ q.num * by = n * (q.den \div 100)

\* a chart value v in tenths is the reading n divided by `by`, to the one
\* decimal the dashboard series keep
IsReadingTo1(v, n, by) == Abs(v * 10 * by - n) <= 5 * by

\* the air-pollution payload a dashboard air-quality series was computed
\* from, when the series comes from the provider
ProviderReading(env) ==
    /\ FetchSucceeds(env.w3)
    /\ FetchSucceeds(env.a2)

\* the air-quality series `chart` reports the provider's reading `c`
SeriesReports(chart, c) ==
    /\ IsReadingTo1(chart.values[6], c.co, 1000)
    /\ IsReadingTo1(chart.values[1], c.pm2_5, 1)
    /\ IsReadingTo1(chart.values[2], c.pm10, 1)
    /\ IsReadingTo1(chart.values[3], c.no2, 1)
    /\ IsReadingTo1(chart.values[4], c.o3, 1)
    /\ IsReadingTo1(chart.values[5], c.so2, 1)

\* C13: each chart output reports a provider CO concentration c (ug/m3) as
\* c/1000 (12000 gives 12.0) and the other five pollutants unconverted: the
\* pie and bar chart values exactly, the dashboard series to the one decimal
\* it keeps of every value.
C13_ChartsReportCOInMilligrams ==
    /\ (pc = "done" /\ endpoint = "create_air_quality_pie_chart") =>
        \A i \in 1..6 :
            component_keys[i] \in DOMAIN request.components =>
                IsReading(body.values[i],
                          request.components[component_keys[i]],
                          IF i = 6 THEN 1000 ELSE 1)
    /\ (/\ pc = "done"
        /\ endpoint = "create_air_quality_bar_chart"
        /\ request.air_quality_data # <<>>) =>
        \A i \in 1..6 :
            component_keys[i] \in DOMAIN request.air_quality_data[1] =>
                IsReading(body.values[i],
                          request.air_quality_data[1][component_keys[i]],
                          IF i = 6 THEN 1000 ELSE 1)
    /\ (/\ pc = "done"
        /\ endpoint = "get_chart_data"
        /\ request.chart_type = "air_quality"
        /\ ProviderReading(request.env)) =>
        SeriesReports(body, request.env.a2.data.components)
    /\ (/\ pc = "done"
        /\ endpoint = "get_dashboard_data"
        /\ status = 200
        /\ request.data_type \in {"all", "charts"}
        /\ ProviderReading(request.env)) =>
        SeriesReports(body.chart_data.air_quality,
                      request.env.a2.data.components)

\* the dashboard series reports the provider's 12000 ug/m3 of CO as 12.0
C13_Witness ==
    /\ pc = "done"
    /\ endpoint = "get_chart_data"
    /\ request.chart_type = "air_quality"
    /\ ProviderReading(request.env)
    /\ request.env.a2.data.components.co = 1200000
    /\ body.values[6] = 120

\* C14: every CO concentration in a dashboard bundle is in mg/m3: both
\* air_quality.components.co and the CO value of chart_data.air_quality are
\* the provider's ug/m3 reading divided by 1000 (to the one decimal kept).
C14_COLeavesInMilligrams ==
    (pc = "done" /\ endpoint = "get_dashboard_data" /\ status = 200) =>
        /\ FetchSucceeds(request.env.a1) =>
            IsReadingTo1(body.air_quality.components.co,
                         request.env.a1.data.components.co, 1000)
        /\ (/\ request.data_type \in {"all", "charts"}
            /\ ProviderReading(request.env)) =>
            IsReadingTo1(body.chart_data.air_quality.values[6],
                         request.env.a2.data.components.co, 1000)

\* whether the values of a chart series had to be generated, given the
\* replies to the provider calls the series is built from
Synthetic(series, env) ==
    IF series = "temperature" THEN ~FetchSucceeds(env.f2)
    ELSE IF series = "air_quality" THEN ~ProviderReading(env)
    ELSE ~FetchSucceeds(env.f3)

\* C15: a chart series, returned by /api/dashboard/chart-data/{type} or
\* inside a bundle's chart_data, carries mock: true exactly when its values
\* are synthetic, the readings substituted by get_air_quality_data after a
\* failed air-pollution call included.
C15_MockFlagMarksSyntheticSeries ==
    /\ (pc = "done" /\ endpoint = "get_chart_data" /\ status = 200) =>
        (body.mock <=> Synthetic(request.chart_type, request.env))
    /\ (/\ pc = "done"
        /\ endpoint = "get_dashboard_data"
        /\ status = 200
        /\ request.data_type \in {"all", "charts"}) =>
        \A series \in {"temperature", "air_quality", "weather_distribution"} :
            body.chart_data[series].mock <=> Synthetic(series, request.env)

\* the forecast entries the handlers build from the provider's list L
ForecastOf(L) ==
    [i \in 1..Len(L) |->
        [datetime |-> L[i].dt_txt, temperature |-> Fmt(L[i].temp, "C"),
         humidity |-> Fmt(L[i].humidity, "%"), weather |-> L[i].main]]

\* C16: the forecast of GET /api/weather/forecast/{city} and the forecast
\* list of a dashboard bundle are the first min(days*8, |L|) entries of the
\* provider's list L, in its order, and never more than max(0, days*8).
C16_ForecastIsPrefix ==
    (/\ pc = "done"
     /\ endpoint \in {"get_weather_forecast", "get_dashboard_data"}
     /\ status = 200) =>
        LET L == request.env.f1.data.list
        IN  /\ body.forecast = FirstEntries(ForecastOf(L), request.days * 8)
            /\ Len(body.forecast) <= Max(0, request.days * 8)

\* the city name inside the `q` of a provider call: get_current_weather
\* appends "," and the country code to it
SentCity(q) ==
    IF endpoint = "get_current_weather" /\ request.country_code # <<>>
    THEN SubSeq(q, 1, Len(q) - Len(request.country_code) - 1)
    ELSE q

\* the city of the first provider request when the operation that served
\* the request at hand is given `city` instead
ResentCity(city) ==
    IF endpoint = "get_current_weather"
    THEN get_current_weather(city, <<>>, request.env.w1).calls
    ELSE IF endpoint = "get_weather_forecast"
    THEN get_weather_forecast(city, request.days, request.env.f1).calls
    ELSE IF endpoint = "fetch_weather"
    THEN fetch_weather(city, request.env.w1).calls
    ELSE get_weather_data(city, request.env.w1).calls

\* C17: the city name in every provider request of the weather current,
\* weather forecast, fetch_weather and dashboard operations has no
\* whitespace and no quote character at either end, and cleaning it again
\* changes nothing.
C17_ProviderCityIsClean ==
    (/\ pc = "done"
     /\ endpoint \in {"get_current_weather", "get_weather_forecast",
                      "fetch_weather", "get_dashboard_data",
                      "get_chart_data"}) =>
        \A i \in 1..Len(calls) :
            calls[i].api \in {"weather", "forecast"} =>
                LET sent == SentCity(calls[i].q)
                IN  /\ Trimmed(sent) = sent
                    /\ \A j \in 1..Len(ResentCity(sent)) :
                           ResentCity(sent)[j].q = sent

\* the air_pollution call at position i of `calls` asks for the coordinates
\* of a well-formed reply to a weather call made before it in this request:
\* the weather calls are answered, in order, by the replies w1, w2, w3 of
\* a bundle request and by w3 alone for a single series
CoordinatesFromEarlierWeather(i) ==
    LET replies == IF endpoint = "get_dashboard_data"
                   THEN <<request.env.w1, request.env.w2, request.env.w3>>
                   ELSE <<request.env.w3>>
        earlier == Cardinality({j \in 1..(i - 1) : calls[j].api = "weather"})
    IN  \E k \in 1..earlier :
            /\ FetchSucceeds(replies[k])
            /\ calls[i].lat = replies[k].data.lat
            /\ calls[i].lon = replies[k].data.lon

\* C18: within one get_dashboard_data request the current-weather fetch is
\* the first provider call, every later call (air pollution, forecast,
\* chart series) follows a successful current-weather fetch, and every
\* air-pollution call asks for coordinates of a successful current-weather
\* response received earlier in the request.
C18_WeatherResolvesFirst ==
    (pc = "done" /\ endpoint = "get_dashboard_data") =>
        /\ calls # <<>> => calls[1].api = "weather"
        /\ Len(calls) > 1 => FetchSucceeds(request.env.w1)
        /\ \A i \in 1..Len(calls) :
               calls[i].api = "air_pollution" =>
                   CoordinatesFromEarlierWeather(i)

\* a bundle whose chart phase looked the coordinates up again and got those
\* of another place than the first lookup
C18_Witness ==
    /\ pc = "done"
    /\ endpoint = "get_dashboard_data"
    /\ status = 200
    /\ Len(calls) = 8
    /\ calls[3].api = "air_pollution"
    /\ calls[7].api = "air_pollution"
    /\ calls[3].lat # calls[7].lat

\* C19: a request that has made an outbound provider call completes with a
\* response in the end, whether or not the provider ever answers.
C19_OutboundCallEnds == (pc = "waiting") ~> (pc = "done")

C21_ExplainLooksUpLowercasedTopic ==
    (pc = "done" /\ endpoint = "explain_topic" /\ status = 200) =>
        LET key == lower(request.topic)
        IN  /\ body.topic = request.topic
            /\ body.related_topics =
                   IF \E i \in 1..Len(related_map) : related_map[i].key = key
                   THEN related_map[CHOOSE i \in 1..Len(related_map) :
                                        related_map[i].key = key].related
                   ELSE DefaultSuggestions
            /\ client = "None" =>
                   body.explanation =
                       IF key \in fallback_explanations
                       THEN [text |-> "canned", key |-> key]
                       ELSE [text |-> "generic", key |-> request.topic]

\* a topic typed in capitals is answered, on the model path, with the
\* related topics of its lowercased form
C21_Witness ==
    /\ pc = "done"
    /\ endpoint = "explain_topic"
    /\ status = 200
    /\ client = "OpenAI"
    /\ request.topic = <<"C","A","R","B","O","N"," ",
                         "F","O","O","T","P","R","I","N","T">>
    /\ body.related_topics = <<"Greenhouse Effect", "Sustainable Living">>

RECURSIVE Sum(_)
Sum(s) == IF s = <<>> THEN 0 ELSE Head(s) + Sum(Tail(s))

\* `series` is the histogram of the `main` conditions of the whole list L
HistogramOf(series, L) ==
    /\ Len(series.conditions) = Len(series.counts)
    /\ NoDuplicates(series.conditions)
    /\ Sum(series.counts) = Len(L)
    /\ \A i \in 1..Len(L) :
           \E j \in 1..Len(series.conditions) :
               series.conditions[j] = L[i].main
    /\ \A j \in 1..Len(series.conditions) :
           series.counts[j] =
               Cardinality({i \in 1..Len(L) :
                               L[i].main = series.conditions[j]})

\* the weather_distribution series of the response, when the handler
\* produced one from a provider list
DistributionSeries ==
    IF endpoint = "get_chart_data" THEN body
    ELSE body.chart_data.weather_distribution

HasDistributionSeries ==
    /\ pc = "done"
    /\ \/ endpoint = "get_chart_data"
          /\ request.chart_type = "weather_distribution"
       \/ endpoint = "get_dashboard_data"
          /\ request.data_type \in {"all", "charts"}
    /\ status = 200
    /\ FetchSucceeds(request.env.f3)

\* C22: the weather_distribution series counts each distinct `main`
\* condition over the whole forecast list of the provider: the counts sum
\* to the length of the list, each condition appears once, and the series
\* is the same for every value of `days`.
C22_DistributionIgnoresDays ==
    HasDistributionSeries =>
        /\ HistogramOf(DistributionSeries, request.env.f3.data.list)
        /\ \A days \in Days :
               \A c \in get_weather_distribution_data(request.city, days,
                                                      request.env.f3) :
                   c.val = DistributionSeries

\* a one-day request whose series counts all 9 entries of the list
C22_Witness ==
    /\ HasDistributionSeries
    /\ endpoint = "get_chart_data"
    /\ request.days = 1
    /\ Len(request.env.f3.data.list) = MaxForecast
    /\ Sum(body.counts) = MaxForecast

\* C23: a response of GET /api/weather/air-quality/{city} is produced
\* without a provider call and has a non-negative aqi and the category of
\* that aqi in the six-band table, the one get_aqi_category gives.
C23_AirQualityCategoryMatchesBands ==
    (pc = "done" /\ endpoint = "get_air_quality") =>
        /\ calls = NoCalls
        /\ status = 200
        /\ body.aqi >= 0
        /\ body.category = SeverityOrder[BandOf(body.aqi)]
        /\ body.category = get_aqi_category(body.aqi)

\* the highest aqi of the second band
C23_Witness ==
    /\ pc = "done"
    /\ endpoint = "get_air_quality"
    /\ body.aqi = 100
    /\ body.category = "Moderate"

\* C24: GET /api/dashboard/chart-data/{chart_type} with a chart_type other
\* than temperature, air_quality and weather_distribution is rejected with
\* status 400 and makes no provider call.
C24_UnknownChartTypeIs400 ==
    (/\ pc = "done"
     /\ endpoint = "get_chart_data"
     /\ request.chart_type \notin {"temperature", "air_quality",
                                   "weather_distribution"})
    => (status = 400 /\ calls = NoCalls)

\* every entry of the list `ts` is a name of the topic catalog
InCatalog(ts) ==
    \A i \in 1..Len(ts) :
        \E j \in 1..Len(climate_topics) : climate_topics[j] = ts[i]

\* C25: every topic the tutor hands out, in the suggested_topics of a chat
\* reply (model path or fallback path) and in the related_topics of an
\* explain response, is a name of the topic catalog served by
\* GET /api/chat/topics.
C25_TopicsComeFromCatalog ==
    /\ (pc = "done" /\ endpoint = "chat_with_tutor" /\ status = 200) =>
        InCatalog(body.suggested_topics)
    /\ (pc = "done" /\ endpoint = "explain_topic" /\ status = 200) =>
        InCatalog(body.related_topics)

\* C26: search_cities, in its dashboard and its weather variant, returns at
\* most max(0, limit) cities for every query, limit and provider response.
C26_SearchReturnsAtMostLimit ==
    (/\ pc = "done"
     /\ endpoint \in {"search_cities", "weather_search_cities"}
     /\ status = 200)
    => Len(body.cities) <= Max(0, request.limit)

\* C27: in a bundle with chart data the series show the readings of the
\* textual fields: the dates of the temperature series are the datetimes of
\* the forecast list, and the air-quality series has the values of
\* air_quality.components for PM2.5, PM10, NO2, O3 and SO2.
C27_ChartsAgreeWithText ==
    (/\ pc = "done"
     /\ endpoint = "get_dashboard_data"
     /\ status = 200
     /\ request.data_type \in {"all", "charts"})
    => /\ body.chart_data.temperature.dates =
              [i \in 1..Len(body.forecast) |-> body.forecast[i].datetime]
       /\ \A i \in 1..5 :
              body.chart_data.air_quality.values[i] =
                  body.air_quality.components[component_keys[i]]

====
